---- MODULE Spec2Model ----
(***************************************************************************)
(* A state-machine model of main() in main_train.py: the training-run      *)
(* driver of enkorde.  One action per statement group of main(); the       *)
(* collaborators (argparse, fetch_config, wandb, fetch_tokenizer, the      *)
(* Lightning Trainer, the file system) are modelled by what main() passes  *)
(* to them and reads back from them.  Library calls are taken to return;   *)
(* the exceptions modelled are the ones main() itself can raise: the two   *)
(* ValueErrors of the dispatches and the KeyError of the config lookup.    *)
(***************************************************************************)
EXTENDS Integers, Sequences, FiniteSets, TLC

\* ---- bounds -------------------------------------------------------------
\* largest max_epochs a fetched configuration entry may carry
MaxEpochs == 2

\* ---- names owned by the imported classes --------------------------------
\* The name attributes of the classes imported on lines 8 and 11.  main() only
\* compares config values with them, so all the model relies on is that the
\* names are distinct; "transformer_torch" is also the default of --model.
TransformerTorch_name == "transformer_torch"
TransformerScratch_name == "transformer_scratch"
Kor2EngDataModule_name == "kor2eng"
Kor2EngSmallDataModule_name == "kor2eng_small"

\* values --model may take on the command line (the last one is unknown to
\* both dispatch branches)
ModelNames == {TransformerTorch_name, TransformerScratch_name, "transformer_other"}
\* values the fetched entry may carry under 'data'
DataNames == {Kor2EngDataModule_name, Kor2EngSmallDataModule_name, "kor2eng_other"}
Vers == {"overfit", "v1"}
Entities == {"eubinecto"}
NumWorkers == {4, 2}

\* ---- dictionaries -------------------------------------------------------
EmptyDict == [k \in {} |-> 0]

Restrict(d, S) == [k \in S |-> d[k]]

\* dict.update as written the wrong way round: existing keys win
UpdateKeepsOld(d, u) ==
  [k \in (DOMAIN d) \cup (DOMAIN u) |-> IF k \in DOMAIN d THEN d[k] ELSE u[k]]

\* d.update(u): every key of u is set to u's value, other keys of d stay
Update(d, u) ==
  [k \in (DOMAIN d) \cup (DOMAIN u) |-> IF k \in DOMAIN u THEN u[k] ELSE d[k]]

\* the keys the argument parser defines
CLIKeys == {"entity", "model", "ver", "num_workers", "log_every_n_steps",
            "fast_dev_run", "overfit_batches", "check_val_every_n_epoch"}

\* the namespaces parse_args() can return; the options that are not varied
\* keep their defaults
ParsedArgs ==
  { [entity |-> e, model |-> m, ver |-> v, num_workers |-> n,
     log_every_n_steps |-> 1, fast_dev_run |-> f, overfit_batches |-> 0,
     check_val_every_n_epoch |-> 1] :
       e \in Entities, m \in ModelNames, v \in Vers, n \in NumWorkers,
       f \in BOOLEAN }

\* values a fetched entry may carry under keys that the CLI also defines
Stale == [model |-> TransformerScratch_name, ver |-> "stale", fast_dev_run |-> TRUE]

\* the entries fetch_config()['train'][model][ver] may hold: the keys main()
\* reads, and any subset of the clashing keys of Stale
FetchedEntries ==
  { Update([tokenizer |-> "wp", data |-> d, max_epochs |-> me,
            hidden_size |-> 512, ffn_size |-> 512, max_length |-> 145,
            heads |-> 8, depth |-> 3, dropout |-> 0, lr |-> 1],
           Restrict(Stale, S)) :
       d \in DataNames, me \in 1..MaxEpochs, S \in SUBSET (DOMAIN Stale) }

\* ---- state --------------------------------------------------------------
VARIABLES
  pc,            \* position in main()
  args,          \* vars(args) once parsed
  fetched,       \* the entry as fetched, before the merge (ghost copy)
  config,        \* the merged config
  run,           \* the wandb run: "none", "open", "closed"
  run_init,      \* what wandb.init was called with
  tokenizer,     \* <<>> or <<the fetched tokenizer>>
  transformer,   \* <<>> or <<the constructed model>>
  datamodule,    \* <<>> or <<the constructed datamodule>>
  trainer,       \* <<>> or <<the constructed Trainer>>
  fit_calls,     \* the calls of trainer.fit, in order
  current_epoch, \* trainer.current_epoch
  ckpt_file,     \* ROOT_DIR/transformer.ckpt exists on disk
  artifact,      \* <<>> or <<the wandb.Artifact>>
  logged,        \* the calls of run.log_artifact, in order
  exc,           \* <<>> or <<the exception that is propagating>>
  events         \* the steps of main() that were carried out, in order

vars == <<pc, args, fetched, config, run, run_init, tokenizer, transformer,
          datamodule, trainer, fit_calls, current_epoch, ckpt_file, artifact,
          logged, exc, events>>

Init ==
  /\ pc = "parse_args"
  /\ args = EmptyDict
  /\ fetched = EmptyDict
  /\ config = EmptyDict
  /\ run = "none"
  /\ run_init = <<>>
  /\ tokenizer = <<>>
  /\ transformer = <<>>
  /\ datamodule = <<>>
  /\ trainer = <<>>
  /\ fit_calls = <<>>
  /\ current_epoch = 0
  /\ ckpt_file = FALSE
  /\ artifact = <<>>
  /\ logged = <<>>
  /\ exc = <<>>
  /\ events = <<>>

\* ---- lines 15-24: the argument parser -----------------------------------
ParseArgs ==
  /\ pc = "parse_args"
  /\ \E a \in ParsedArgs : args' = a
  /\ pc' = "merge_config"
  /\ events' = Append(events, "parse_args")
  /\ UNCHANGED <<fetched, config, run, run_init, tokenizer, transformer,
                 datamodule, trainer, fit_calls, current_epoch, ckpt_file,
                 artifact, logged, exc>>

\* ---- lines 25-26: look the entry up and merge the CLI arguments in ------
MergeConfig ==
  /\ pc = "merge_config"
  /\ \E entry \in FetchedEntries :
        /\ fetched' = entry
        /\ config' = Update(entry, args)
  /\ pc' = "wandb_init"
  /\ events' = Append(events, "merge_config")
  /\ UNCHANGED <<args, run, run_init, tokenizer, transformer, datamodule,
                 trainer, fit_calls, current_epoch, ckpt_file, artifact,
                 logged, exc>>

\* line 25 when the fetched table has no entry for (args.model, args.ver):
\* the subscript raises KeyError before the with-statement is entered
MergeConfigKeyError ==
  /\ pc = "merge_config"
  /\ exc' = <<[type |-> "KeyError", msg |-> "", value |-> args["model"]]>>
  /\ pc' = "done"
  /\ UNCHANGED <<args, fetched, config, run, run_init, tokenizer, transformer,
                 datamodule, trainer, fit_calls, current_epoch, ckpt_file,
                 artifact, logged, events>>

\* ---- line 27: enter the with-statement ----------------------------------
WandbInit ==
  /\ pc = "wandb_init"
  /\ run' = "open"
  /\ run_init' = <<[entity |-> config["entity"], project |-> "enkorde",
                    config |-> config]>>
  /\ pc' = "fetch_tokenizer"
  /\ events' = Append(events, "wandb_init")
  /\ UNCHANGED <<args, fetched, config, tokenizer, transformer, datamodule,
                 trainer, fit_calls, current_epoch, ckpt_file, artifact,
                 logged, exc>>

\* ---- line 29 ------------------------------------------------------------
FetchTokenizer ==
  /\ pc = "fetch_tokenizer"
  /\ tokenizer' = <<[entity |-> config["entity"], name |-> config["tokenizer"],
                     vocab_size |-> 100, pad_token_id |-> 0]>>
  /\ pc' = "resolve_model"
  /\ events' = Append(events, "fetch_tokenizer")
  /\ UNCHANGED <<args, fetched, config, run, run_init, transformer,
                 datamodule, trainer, fit_calls, current_epoch, ckpt_file,
                 artifact, logged, exc>>

\* ---- lines 31-60: choose the implementation of the transformer ----------
\* the dispatch with the two constructors swapped between the branches
ModelBranchSwapped(name) ==
  IF name = TransformerTorch_name THEN "TransformerScratch"
  ELSE IF name = TransformerScratch_name THEN "TransformerTorch"
  ELSE "invalid"

\* the branch of the if/elif/else that a value of config['model'] takes
ModelBranch(name) ==
  IF name = TransformerTorch_name THEN "TransformerTorch"
  ELSE IF name = TransformerScratch_name THEN "TransformerScratch"
  ELSE "invalid"

\* the positional arguments both constructors share
ModelArgs ==
  [hidden_size |-> config["hidden_size"], ffn_size |-> config["ffn_size"],
   vocab_size |-> tokenizer[1].vocab_size, max_length |-> config["max_length"],
   pad_token_id |-> tokenizer[1].pad_token_id, heads |-> config["heads"],
   depth |-> config["depth"], dropout |-> config["dropout"],
   lr |-> config["lr"]]

\* lines 31-45: torch.cuda.is_available() decides the device
ResolveTorch ==
  /\ pc = "resolve_model"
  /\ ModelBranch(config["model"]) = "TransformerTorch"
  /\ \E device \in {"cuda", "cpu"} :
        transformer' = <<[cls |-> "TransformerTorch", args |-> ModelArgs,
                          device |-> <<device>>]>>
  /\ pc' = "resolve_data"
  /\ events' = Append(events, "resolve_model")
  /\ UNCHANGED <<args, fetched, config, run, run_init, tokenizer, datamodule,
                 trainer, fit_calls, current_epoch, ckpt_file, artifact,
                 logged, exc>>

\* lines 46-58 with the data dispatch skipped over
ResolveScratchSkipsData ==
  /\ pc = "resolve_model"
  /\ ModelBranch(config["model"]) = "TransformerScratch"
  /\ transformer' = <<[cls |-> "TransformerScratch", args |-> ModelArgs,
                       device |-> <<>>]>>
  /\ pc' = "Trainer"
  /\ events' = Append(events, "resolve_model")
  /\ UNCHANGED <<args, fetched, config, run, run_init, tokenizer, datamodule,
                 trainer, fit_calls, current_epoch, ckpt_file, artifact,
                 logged, exc>>

\* lines 46-58
ResolveScratch ==
  /\ pc = "resolve_model"
  /\ ModelBranch(config["model"]) = "TransformerScratch"
  /\ transformer' = <<[cls |-> "TransformerScratch", args |-> ModelArgs,
                       device |-> <<>>]>>
  /\ pc' = "resolve_data"
  /\ events' = Append(events, "resolve_model")
  /\ UNCHANGED <<args, fetched, config, run, run_init, tokenizer, datamodule,
                 trainer, fit_calls, current_epoch, ckpt_file, artifact,
                 logged, exc>>

\* lines 59-60 with the error only reported and the run carried on
RaiseInvalidModelContinues ==
  /\ pc = "resolve_model"
  /\ ModelBranch(config["model"]) = "invalid"
  /\ pc' = "resolve_data"
  /\ UNCHANGED <<args, fetched, config, run, run_init, tokenizer, transformer,
                 datamodule, trainer, fit_calls, current_epoch, ckpt_file,
                 artifact, logged, exc, events>>

\* lines 59-60: the raise leaves the with-block
RaiseInvalidModel ==
  /\ pc = "resolve_model"
  /\ ModelBranch(config["model"]) = "invalid"
  /\ exc' = <<[type |-> "ValueError", msg |-> "Invalid model",
               value |-> config["model"]]>>
  /\ pc' = "with_exit"
  /\ UNCHANGED <<args, fetched, config, run, run_init, tokenizer, transformer,
                 datamodule, trainer, fit_calls, current_epoch, ckpt_file,
                 artifact, logged, events>>

\* ---- lines 62-67: choose the data ---------------------------------------
\* the dispatch with the small datamodule as the fallback of every other name
DataBranchNoElse(name) ==
  IF name = Kor2EngDataModule_name THEN "Kor2EngDataModule"
  ELSE "Kor2EngSmallDataModule"

DataBranch(name) ==
  IF name = Kor2EngDataModule_name THEN "Kor2EngDataModule"
  ELSE IF name = Kor2EngSmallDataModule_name THEN "Kor2EngSmallDataModule"
  ELSE "invalid"

\* lines 62-65
ResolveData ==
  /\ pc = "resolve_data"
  /\ DataBranch(config["data"]) # "invalid"
  /\ datamodule' = <<[cls |-> DataBranch(config["data"]), config |-> config,
                      tokenizer |-> tokenizer[1]]>>
  /\ pc' = "Trainer"
  /\ events' = Append(events, "resolve_data")
  /\ UNCHANGED <<args, fetched, config, run, run_init, tokenizer, transformer,
                 trainer, fit_calls, current_epoch, ckpt_file, artifact,
                 logged, exc>>

\* lines 66-67 raised outside any with-statement: nothing closes the run
RaiseInvalidDataNoExit ==
  /\ pc = "resolve_data"
  /\ DataBranch(config["data"]) = "invalid"
  /\ exc' = <<[type |-> "ValueError", msg |-> "Invalid data",
               value |-> config["data"]]>>
  /\ pc' = "done"
  /\ UNCHANGED <<args, fetched, config, run, run_init, tokenizer, transformer,
                 datamodule, trainer, fit_calls, current_epoch, ckpt_file,
                 artifact, logged, events>>

\* lines 66-67
RaiseInvalidData ==
  /\ pc = "resolve_data"
  /\ DataBranch(config["data"]) = "invalid"
  /\ exc' = <<[type |-> "ValueError", msg |-> "Invalid data",
               value |-> config["data"]]>>
  /\ pc' = "with_exit"
  /\ UNCHANGED <<args, fetched, config, run, run_init, tokenizer, transformer,
                 datamodule, trainer, fit_calls, current_epoch, ckpt_file,
                 artifact, logged, events>>

\* ---- lines 69-79: the logger and the trainer ----------------------------
NewTrainer ==
  /\ pc = "Trainer"
  /\ trainer' = <<[fast_dev_run |-> config["fast_dev_run"],
                   check_val_every_n_epoch |-> config["check_val_every_n_epoch"],
                   overfit_batches |-> config["overfit_batches"],
                   max_epochs |-> config["max_epochs"],
                   log_every_n_steps |-> config["log_every_n_steps"],
                   enable_checkpointing |-> FALSE]>>
  /\ pc' = "fit"
  /\ events' = Append(events, "Trainer")
  /\ UNCHANGED <<args, fetched, config, run, run_init, tokenizer, transformer,
                 datamodule, fit_calls, current_epoch, ckpt_file, artifact,
                 logged, exc>>

\* ---- line 81: training; the epoch the trainer stops at is its own -------
Fit ==
  /\ pc = "fit"
  /\ fit_calls' = Append(fit_calls, [model |-> transformer, datamodule |-> datamodule])
  /\ \E e \in 0..trainer[1].max_epochs : current_epoch' = e
  /\ pc' = "gate"
  /\ events' = Append(events, "fit")
  /\ UNCHANGED <<args, fetched, config, run, run_init, tokenizer, transformer,
                 datamodule, trainer, ckpt_file, artifact, logged, exc>>

\* ---- line 83: save only if the training is properly done ----------------
\* the gate with the epoch compared to max_epochs instead of max_epochs - 1
ProperlyDoneOffByOne(cfg, epoch) ==
  (~cfg["fast_dev_run"]) /\ epoch = cfg["max_epochs"]

ProperlyDone(cfg, epoch) ==
  (~cfg["fast_dev_run"]) /\ epoch = cfg["max_epochs"] - 1

\* lines 84-85
SaveCheckpoint ==
  /\ pc = "gate"
  /\ ProperlyDone(config, current_epoch)
  /\ ckpt_file' = TRUE
  /\ pc' = "Artifact"
  /\ events' = Append(events, "save_checkpoint")
  /\ UNCHANGED <<args, fetched, config, run, run_init, tokenizer, transformer,
                 datamodule, trainer, fit_calls, current_epoch, artifact,
                 logged, exc>>

\* line 83 when the condition is false: the with-block ends
SkipCheckpoint ==
  /\ pc = "gate"
  /\ ~ProperlyDone(config, current_epoch)
  /\ pc' = "with_exit"
  /\ UNCHANGED <<args, fetched, config, run, run_init, tokenizer, transformer,
                 datamodule, trainer, fit_calls, current_epoch, ckpt_file,
                 artifact, logged, exc, events>>

\* line 86 with the artifact named after one fixed implementation
NewArtifactFixedName ==
  /\ pc = "Artifact"
  /\ artifact' = <<[name |-> TransformerTorch_name, type |-> "model",
                    metadata |-> config, files |-> <<>>]>>
  /\ pc' = "add_file"
  /\ events' = Append(events, "Artifact")
  /\ UNCHANGED <<args, fetched, config, run, run_init, tokenizer, transformer,
                 datamodule, trainer, fit_calls, current_epoch, ckpt_file,
                 logged, exc>>

\* line 86
NewArtifact ==
  /\ pc = "Artifact"
  /\ artifact' = <<[name |-> config["model"], type |-> "model",
                    metadata |-> config, files |-> <<>>]>>
  /\ pc' = "add_file"
  /\ events' = Append(events, "Artifact")
  /\ UNCHANGED <<args, fetched, config, run, run_init, tokenizer, transformer,
                 datamodule, trainer, fit_calls, current_epoch, ckpt_file,
                 logged, exc>>

\* line 87 followed at once by the removal, the upload left out
AddFileSkipsLog ==
  /\ pc = "add_file"
  /\ artifact' = <<[artifact[1] EXCEPT !.files = Append(@, "transformer.ckpt")]>>
  /\ pc' = "remove"
  /\ events' = Append(events, "add_file")
  /\ UNCHANGED <<args, fetched, config, run, run_init, tokenizer, transformer,
                 datamodule, trainer, fit_calls, current_epoch, ckpt_file,
                 logged, exc>>

\* line 87
AddFile ==
  /\ pc = "add_file"
  /\ artifact' = <<[artifact[1] EXCEPT !.files = Append(@, "transformer.ckpt")]>>
  /\ pc' = "log_artifact"
  /\ events' = Append(events, "add_file")
  /\ UNCHANGED <<args, fetched, config, run, run_init, tokenizer, transformer,
                 datamodule, trainer, fit_calls, current_epoch, ckpt_file,
                 logged, exc>>

\* line 88
LogArtifact ==
  /\ pc = "log_artifact"
  /\ logged' = Append(logged, [artifact |-> artifact[1],
                               aliases |-> <<"latest", config["ver"]>>,
                               run |-> run])
  /\ pc' = "remove"
  /\ events' = Append(events, "log_artifact")
  /\ UNCHANGED <<args, fetched, config, run, run_init, tokenizer, transformer,
                 datamodule, trainer, fit_calls, current_epoch, ckpt_file,
                 artifact, exc>>

\* line 89 without the removal
RemoveKeepsFile ==
  /\ pc = "remove"
  /\ pc' = "with_exit"
  /\ events' = Append(events, "remove")
  /\ UNCHANGED <<args, fetched, config, run, run_init, tokenizer, transformer,
                 datamodule, trainer, fit_calls, current_epoch, ckpt_file,
                 artifact, logged, exc>>

\* line 89: the last statement of the with-block
Remove ==
  /\ pc = "remove"
  /\ ckpt_file' = FALSE
  /\ pc' = "with_exit"
  /\ events' = Append(events, "remove")
  /\ UNCHANGED <<args, fetched, config, run, run_init, tokenizer, transformer,
                 datamodule, trainer, fit_calls, current_epoch, artifact,
                 logged, exc>>

\* ---- line 27, leaving the with-statement: the run's __exit__ closes the
\* run, both when the block ends and when an exception leaves it; the
\* exception, if any, goes on propagating and ends main()
WithExit ==
  /\ pc = "with_exit"
  /\ run' = "closed"
  /\ pc' = "done"
  /\ events' = Append(events, "run_exit")
  /\ UNCHANGED <<args, fetched, config, run_init, tokenizer, transformer,
                 datamodule, trainer, fit_calls, current_epoch, ckpt_file,
                 artifact, logged, exc>>

Next ==
  \/ ParseArgs
  \/ MergeConfig
  \/ MergeConfigKeyError
  \/ WandbInit
  \/ FetchTokenizer
  \/ ResolveTorch
  \/ ResolveScratch
  \/ RaiseInvalidModel
  \/ ResolveData
  \/ RaiseInvalidData
  \/ NewTrainer
  \/ Fit
  \/ SaveCheckpoint
  \/ SkipCheckpoint
  \/ NewArtifact
  \/ AddFile
  \/ LogArtifact
  \/ Remove
  \/ WithExit

Spec == Init /\ [][Next]_vars

\* ---- the steps of main(), in the order the source writes them -----------
Pipeline ==
  <<"parse_args", "merge_config", "wandb_init", "fetch_tokenizer",
    "resolve_model", "resolve_data", "Trainer", "fit", "save_checkpoint",
    "Artifact", "add_file", "log_artifact", "remove", "run_exit">>

Rank(e) == CHOOSE i \in 1..Len(Pipeline) : Pipeline[i] = e

Count(e) == Cardinality({i \in 1..Len(events) : events[i] = e})

Did(e) == \E i \in 1..Len(events) : events[i] = e

\* e was carried out, and f was carried out somewhere before it
Before(f, e) ==
  \E i \in 1..Len(events) : events[i] = e /\ \E j \in 1..(i - 1) : events[j] = f

CheckpointSteps ==
  {"save_checkpoint", "Artifact", "add_file", "log_artifact", "remove"}

ValidModel == config["model"] \in {TransformerTorch_name, TransformerScratch_name}

ValidData == config["data"] \in {Kor2EngDataModule_name, Kor2EngSmallDataModule_name}

Raised(type, msg) ==
  Len(exc) = 1 /\ exc[1].type = type /\ exc[1].msg = msg

\* ---- claims --------------------------------------------------------------

\* C1: the checkpoint sequence runs if and only if fast_dev_run is false and
\* the trainer stopped at epoch max_epochs - 1.  No step of the sequence, no
\* checkpoint file and no logged artifact exists unless fit has returned and
\* that condition holds; and once main() has ended after a fit, all five
\* steps have run exactly when the condition holds.
C1_CheckpointGate ==
  /\ ((\E e \in CheckpointSteps : Did(e)) \/ ckpt_file \/ Len(logged) > 0)
        => /\ Did("fit")
           /\ config["fast_dev_run"] = FALSE
           /\ current_epoch = config["max_epochs"] - 1
  /\ (pc = "done" /\ Did("fit"))
        => ((config["fast_dev_run"] = FALSE
                /\ current_epoch = config["max_epochs"] - 1)
              <=> (\A e \in CheckpointSteps : Did(e)))
  /\ (pc = "done" /\ Did("fit")
        /\ (config["fast_dev_run"] \/ current_epoch # config["max_epochs"] - 1))
        => (Len(logged) = 0 /\ ~Did("save_checkpoint"))

C1_Witness ==
  /\ pc = "done"
  /\ \A e \in CheckpointSteps : Did(e)
  /\ Len(logged) = 1
  /\ current_epoch = config["max_epochs"] - 1

\* C2: the steps of the checkpoint sequence happen in the order
\* save_checkpoint, add_file, log_artifact, remove, none of them more than
\* once; the file is removed only after it was added and logged, and a run
\* that started the sequence has carried out each step exactly once when it
\* ends.
C2_CheckpointOrder ==
  /\ \A e \in CheckpointSteps : Count(e) <= 1
  /\ Did("add_file") => Before("save_checkpoint", "add_file")
  /\ Did("log_artifact") => Before("add_file", "log_artifact")
  /\ Did("remove") => (Before("log_artifact", "remove") /\ Before("add_file", "remove"))
  /\ Did("remove") => (Len(logged) = 1 /\ logged[1].artifact.files = <<"transformer.ckpt">>)
  /\ (pc = "done" /\ Did("save_checkpoint"))
        => \A e \in CheckpointSteps : Count(e) = 1

C2_Witness ==
  /\ pc = "with_exit"
  /\ Did("remove")
  /\ Len(logged) = 1
  /\ ~ckpt_file

\* C3: the model handed to trainer.fit is a TransformerTorch with a device
\* exactly when config['model'] is TransformerTorch.name, a TransformerScratch
\* without a device exactly when it is TransformerScratch.name and not
\* TransformerTorch.name; for any other value no model is constructed and
\* ValueError('Invalid model: <value>') is raised.
C3_ModelDispatch ==
  /\ Len(transformer) = 1
        => /\ (transformer[1].cls = "TransformerTorch"
                 <=> config["model"] = TransformerTorch_name)
           /\ (transformer[1].cls = "TransformerScratch"
                 <=> (config["model"] # TransformerTorch_name
                        /\ config["model"] = TransformerScratch_name))
           /\ (transformer[1].cls = "TransformerTorch"
                 => Len(transformer[1].device) = 1)
           /\ (transformer[1].cls = "TransformerScratch"
                 => Len(transformer[1].device) = 0)
  /\ \A i \in 1..Len(fit_calls) :
        Len(transformer) = 1 /\ fit_calls[i].model = transformer
  /\ (DOMAIN config # {} /\ pc \notin {"parse_args", "merge_config", "wandb_init",
                                       "fetch_tokenizer", "resolve_model"})
        => IF ValidModel
           THEN Len(transformer) = 1 /\ ~Raised("ValueError", "Invalid model")
           ELSE /\ Len(transformer) = 0
                /\ Raised("ValueError", "Invalid model")
                /\ exc[1].value = config["model"]

C3_Witness ==
  /\ Len(fit_calls) = 1
  /\ fit_calls[1].model[1].cls = "TransformerScratch"
  /\ config["model"] = TransformerScratch_name

\* C4: the datamodule handed to trainer.fit is a Kor2EngDataModule exactly
\* when config['data'] is Kor2EngDataModule.name, a Kor2EngSmallDataModule
\* exactly when it is Kor2EngSmallDataModule.name and not the former; for any
\* other value no datamodule is constructed and ValueError('Invalid data:
\* <value>') is raised.
C4_DataDispatch ==
  /\ Len(datamodule) = 1
        => /\ (datamodule[1].cls = "Kor2EngDataModule"
                 <=> config["data"] = Kor2EngDataModule_name)
           /\ (datamodule[1].cls = "Kor2EngSmallDataModule"
                 <=> (config["data"] # Kor2EngDataModule_name
                        /\ config["data"] = Kor2EngSmallDataModule_name))
  /\ \A i \in 1..Len(fit_calls) :
        Len(datamodule) = 1 /\ fit_calls[i].datamodule = datamodule
  /\ (DOMAIN config # {} /\ ValidModel
        /\ pc \notin {"parse_args", "merge_config", "wandb_init",
                      "fetch_tokenizer", "resolve_model", "resolve_data"})
        => IF ValidData
           THEN Len(datamodule) = 1 /\ Len(exc) = 0
           ELSE /\ Len(datamodule) = 0
                /\ Raised("ValueError", "Invalid data")
                /\ exc[1].value = config["data"]

C4_Witness ==
  /\ Len(fit_calls) = 1
  /\ fit_calls[1].datamodule[1].cls = "Kor2EngSmallDataModule"
  /\ config["data"] = Kor2EngSmallDataModule_name

\* C5: when a dispatch raises ValueError, no Trainer has been constructed,
\* fit has never been called, no checkpoint file has been written and no
\* artifact has been logged, and main() ends with that error; an invalid
\* model name is reported before the data name is examined, so with both
\* names invalid the error is the one about the model.
C5_DispatchError ==
  /\ (Len(exc) = 1 /\ exc[1].type = "ValueError")
        => /\ Len(trainer) = 0
           /\ Len(fit_calls) = 0
           /\ ~ckpt_file
           /\ ~Did("save_checkpoint")
           /\ Len(logged) = 0
           /\ pc \in {"with_exit", "done"}
  /\ (DOMAIN config # {} /\ ~ValidModel)
        => /\ Len(datamodule) = 0
           /\ ~Did("resolve_data")
           /\ ~Raised("ValueError", "Invalid data")
           /\ pc \notin {"resolve_data", "Trainer", "fit"}
  /\ (pc = "done" /\ DOMAIN config # {} /\ ~ValidModel)
        => Raised("ValueError", "Invalid model")
  /\ (pc = "done" /\ DOMAIN config # {} /\ ValidModel /\ ~ValidData)
        => Raised("ValueError", "Invalid data")

C5_Witness ==
  /\ pc = "done"
  /\ Raised("ValueError", "Invalid model")
  /\ ~ValidData

\* C6: the merged config is the fetched entry overridden by the CLI
\* arguments: every CLI key has its CLI value, also when the fetched entry
\* defines the key, and every key only the fetched entry has keeps its
\* fetched value.
C6_ConfigMerge ==
  (DOMAIN config # {})
    => /\ DOMAIN config = (DOMAIN fetched) \cup CLIKeys
       /\ DOMAIN args = CLIKeys
       /\ \A k \in CLIKeys : config[k] = args[k]
       /\ \A k \in (DOMAIN fetched) \ CLIKeys : config[k] = fetched[k]

C6_Witness ==
  /\ DOMAIN config # {}
  /\ DOMAIN Stale \subseteq DOMAIN fetched
  /\ fetched["model"] # args["model"]
  /\ fetched["ver"] # args["ver"]
  /\ fetched["fast_dev_run"] # args["fast_dev_run"]
  /\ config["model"] = args["model"]

\* C7: main() is one linear pipeline: the steps carried out follow the order
\* of Pipeline without repetition, the first eight of them and the steps of
\* the checkpoint sequence without a gap, and trainer.fit is called at most once, only after the tokenizer was
\* fetched and both the model and the datamodule were resolved.
C7_LinearPipeline ==
  /\ \A i, j \in 1..Len(events) : i < j => Rank(events[i]) < Rank(events[j])
  /\ \A i \in 1..Len(events) :
        (i <= 8 /\ events[i] # "run_exit") => events[i] = Pipeline[i]
  /\ \A i \in 1..Len(events) :
        (i > 1 /\ Rank(events[i]) \in 9..13)
          => Rank(events[i - 1]) = Rank(events[i]) - 1
  /\ Len(fit_calls) <= 1
  /\ Count("fit") = Len(fit_calls)
  /\ Did("fit")
        => /\ Before("fetch_tokenizer", "fit")
           /\ Before("resolve_model", "fit")
           /\ Before("resolve_data", "fit")
           /\ Before("Trainer", "fit")
           /\ Len(tokenizer) = 1 /\ Len(transformer) = 1 /\ Len(datamodule) = 1
  /\ Did("save_checkpoint") => Before("fit", "save_checkpoint")

C7_Witness ==
  /\ pc = "done"
  /\ Len(events) = Len(Pipeline)
  /\ \A i \in 1..Len(Pipeline) : events[i] = Pipeline[i]

InRunSteps ==
  {"fetch_tokenizer", "resolve_model", "resolve_data", "Trainer", "fit",
   "save_checkpoint", "Artifact", "add_file", "log_artifact", "remove"}

C9_RunClosed ==
  /\ (pc = "done" /\ Did("wandb_init")) => (run = "closed" /\ Count("run_exit") = 1)
  /\ pc = "done" => run # "open"
  /\ pc \in (InRunSteps \cup {"gate", "with_exit"}) => run = "open"
  /\ \A i \in 1..Len(events) :
        events[i] \in InRunSteps
          => /\ \E j \in 1..(i - 1) : events[j] = "wandb_init"
             /\ \A j \in 1..(i - 1) : events[j] # "run_exit"
  /\ \A i \in 1..Len(logged) : logged[i].run = "open"
  /\ run = "closed" => pc = "done"

C9_Witness ==
  /\ pc = "done"
  /\ run = "closed"
  /\ Raised("ValueError", "Invalid data")
  /\ Did("fetch_tokenizer")

\* C10: every logged artifact has type 'model', the CLI --model value as its
\* name, which is TransformerTorch.name or TransformerScratch.name, the
\* aliases ['latest', <CLI --ver value>] and the merged config as metadata;
\* at most one artifact is logged per run.
C10_LoggedArtifact ==
  /\ Len(logged) <= 1
  /\ \A i \in 1..Len(logged) :
        /\ logged[i].artifact.type = "model"
        /\ logged[i].artifact.name = args["model"]
        /\ logged[i].artifact.name \in {TransformerTorch_name, TransformerScratch_name}
        /\ logged[i].aliases = <<"latest", args["ver"]>>
        /\ logged[i].artifact.metadata = config
        /\ logged[i].artifact.metadata = Update(fetched, args)

C10_Witness ==
  /\ Len(logged) = 1
  /\ logged[1].artifact.name = TransformerScratch_name
  /\ "ver" \in DOMAIN fetched
  /\ logged[1].aliases = <<"latest", "v1">>

====
